---- MODULE Spec2Model ----
(***************************************************************************)
(* Sentiment-Classifier/models.py: train_model, the unigram and bigram     *)
(* feature extractors, train_logistic_regression and the classifiers'      *)
(* predict.                                                                *)
(*                                                                         *)
(* Representation.                                                         *)
(*   - A Python str is a sequence of one-character strings, so that        *)
(*     str.lower() and the ' ' join of a bigram are computed, character by *)
(*     character, and not assumed.                                         *)
(*   - A Python float is a fixed-point integer counting units of 1/Scale.  *)
(*     The three places where IEEE-754 doubles behave differently from the *)
(*     reals are kept: math.exp raises OverflowError above MaxExpArg,      *)
(*     expo / (1 + expo) is exactly 1.0 from SatOneArg on, and math.exp    *)
(*     returns 0.0 below MinExpArg.  Roundings are directed so that a      *)
(*     quantity that is non-zero in the program stays non-zero here.       *)
(*   - The Indexer (utils.py) is a sequence of distinct strings; the       *)
(*     object with index i is the element at position i + 1.               *)
(***************************************************************************)
EXTENDS Integers, Sequences, FiniteSets, TLC

VARIABLES
    args,            \* args.model, args.feats as passed to train_model
    train_exs,       \* the training set: a sequence of [words, label]
    pc,              \* where train_model is: start, vocab, model, lr, done, raised
    indexer,         \* the Indexer built by train_model (or handed to an extractor)
    feat_extractor,  \* "None", "UNIGRAM" or "BIGRAM": the extractor wrapping indexer
    weights,         \* the weight vector, in units of 1/Scale
    epoch,           \* i of `for i in range(Epoch)`
    pos,             \* position in train_exs of the example the running loop is at
    nread,           \* number of training examples the vocabulary loops have read
    updates,         \* positions of the examples the weight updates were made for
    model,           \* "None", "TRIVIAL" or "LR": the classifier train_model returned
    error,           \* "" or the exception that ended the call
    ret              \* the last call on the returned objects: [op, words, value]

vars == <<args, train_exs, pc, indexer, feat_extractor, weights, epoch, pos,
          nread, updates, model, error, ret>>

----------------------------------------------------------------------------
(* Bounds of the model *)

MaxLen == 2
MaxExs == 2
MaxIndexer == 2
LongLen == 3700
HugeLen == 3900

----------------------------------------------------------------------------
(* Strings *)

Min(a, b) == IF a <= b THEN a ELSE b

UpperChars == <<"A","B","C","D","E","F","G","H","I","J","K","L","M",
                "N","O","P","Q","R","S","T","U","V","W","X","Y","Z">>
LowerChars == <<"a","b","c","d","e","f","g","h","i","j","k","l","m",
                "n","o","p","q","r","s","t","u","v","w","x","y","z">>

UpperSet == {UpperChars[k] : k \in 1..Len(UpperChars)}
LowerTable ==
    [c \in UpperSet |-> LowerChars[CHOOSE k \in 1..Len(UpperChars) : UpperChars[k] = c]]

LowerChar(c) == IF c \in UpperSet THEN LowerTable[c] ELSE c

\* str.lower()
Lower(s) == [k \in 1..Len(s) |-> LowerChar(s[k])]

\* a + ' ' + b
Bigram(a, b) == a \o <<" ">> \o b

TokFun == <<"f","u","n">>
TokBad == <<"B","a","d">>
TokThe == <<"T","h","e">>
TokOf  == <<"o","f">>
TokDot == <<".">>

Tokens == {TokFun, TokBad, TokThe, TokOf, TokDot}

\* [word] * n
RECURSIVE Repeat(_, _)
Repeat(word, n) ==
    IF n = 0 THEN <<>>
    ELSE IF n = 1 THEN <<word>>
    ELSE LET half == Repeat(word, n \div 2)
         IN  IF n % 2 = 0 THEN half \o half ELSE half \o half \o <<word>>

\* two sentences long enough for the range of the floats to matter
LongList == Repeat(TokFun, LongLen)
HugeList == Repeat(TokFun, HugeLen)

\* set(stopwords.words('english')): the entries of NLTK's list the tokens can meet
stop_words == { <<"t","h","e">>, <<"o","f">>, <<"a">>, <<"a","n","d">>,
                <<"i","s">>, <<"i","t">> }

punkt == { <<",">>, <<".">>, <<","," ">>, <<".",".",".">>, <<"?">>, <<"'">>,
           <<"'","'">>, <<"!">>, <<";">>, <<":">> }

----------------------------------------------------------------------------
(* Indexer (utils.py) *)

Objects(ix) == {ix[k] : k \in 1..Len(ix)}

IndexerContains(ix, obj) == obj \in Objects(ix)

\* the 0-based index of obj, -1 when it is absent
IndexOf(ix, obj) ==
    IF obj \in Objects(ix) THEN (CHOOSE k \in 1..Len(ix) : ix[k] = obj) - 1 ELSE -1

\* add_and_get_index: a new object takes the next index, a known one keeps its own
AddAndGetIndex(ix, obj) == IF obj \in Objects(ix) THEN ix ELSE Append(ix, obj)

\* the sequences without repetition of at most n elements of S
Indexers(S, n) ==
    {ix \in UNION {[1..m -> S] : m \in 0..n} :
        \A j, k \in 1..Len(ix) : j # k => ix[j] # ix[k]}

\* the long sentences and the indexers they meet: the loops over them are
\* evaluated once and tabulated
LongSentences == {LongList, HugeList}
TabledIndexers ==
    { <<>>, <<Lower(TokFun)>>, <<Lower(TokBad)>>,
      <<Lower(TokFun), Lower(TokBad)>>, <<Lower(TokBad), Lower(TokFun)>>,
      <<Lower(Bigram(TokFun, TokFun))>> }
Tabled(ix, words) == ix \in TabledIndexers /\ words \in LongSentences

----------------------------------------------------------------------------
(* Vocabulary construction in train_model *)

UnigramKeepNoLower(word) == word \notin stop_words /\ word \notin punkt

\* line 192: the test that lets a word into the unigram vocabulary
UnigramKeep(word) == Lower(word) \notin stop_words /\ Lower(word) \notin punkt

UnigramAdd(ix, word) ==
    IF UnigramKeep(word) THEN AddAndGetIndex(ix, Lower(word)) ELSE ix

\* lines 191-193, `for word in ex.words`, for the words lo..hi in order.  The
\* range is split in two and ix is evaluated on entry (the Len test), which
\* keeps the depth of the evaluation logarithmic in the number of words.
RECURSIVE UnigramVocab(_, _, _, _)
UnigramVocab(ix, words, lo, hi) ==
    IF Len(ix) < 0 \/ lo > hi THEN ix
    ELSE IF lo = hi THEN UnigramAdd(ix, words[lo])
    ELSE LET mid == (lo + hi) \div 2
         IN  UnigramVocab(UnigramVocab(ix, words, lo, mid), words, mid + 1, hi)

\* lines 199-200: `A and B or (C or D)` is `(A and B) or (C or D)`
BigramSkip(a, b) ==
    \/ (a \in stop_words /\ b \in stop_words)
    \/ (a \in punkt \/ b \in punkt)

BigramAdd(ix, a, b) ==
    IF BigramSkip(a, b) THEN ix ELSE AddAndGetIndex(ix, Lower(Bigram(a, b)))

\* lines 198-203, `for i in range(0, len(ex.words) - 1)`, for i + 1 in lo..hi
RECURSIVE BigramVocab(_, _, _, _)
BigramVocab(ix, words, lo, hi) ==
    IF Len(ix) < 0 \/ lo > hi THEN ix
    ELSE IF lo = hi THEN BigramAdd(ix, words[lo], words[lo + 1])
    ELSE LET mid == (lo + hi) \div 2
         IN  BigramVocab(BigramVocab(ix, words, lo, mid), words, mid + 1, hi)

\* the indexer after one training example has gone through the vocabulary loop
VocabLoops(feats, ix, words) ==
    IF feats = "UNIGRAM" THEN UnigramVocab(ix, words, 1, Len(words))
    ELSE BigramVocab(ix, words, 1, Len(words) - 1)

VocabTable ==
    [feats \in {"UNIGRAM", "BIGRAM"}, ix \in TabledIndexers, words \in LongSentences |->
        VocabLoops(feats, ix, words)]

VocabOfExample(feats, ix, words) ==
    IF Tabled(ix, words) THEN VocabTable[feats, ix, words]
    ELSE VocabLoops(feats, ix, words)

----------------------------------------------------------------------------
(* train_model: the inputs *)

ModelStrings == {"TRIVIAL", "PERCEPTRON", "LR", "SVM"}
FeatStrings  == {"UNIGRAM", "BIGRAM", "BETTER", "TRIGRAM"}

ShortLists == UNION {[1..n -> Tokens] : n \in 0..MaxLen}
WordLists == ShortLists

Examples == [words : WordLists, label : {0, 1}]
TrainSets == UNION {[1..n -> Examples] : n \in 0..MaxExs}

NoRet == [op |-> "none", words |-> <<>>, add |-> FALSE, outcome |-> "none", value |-> <<>>]

Init ==
    /\ args \in [model : ModelStrings, feats : FeatStrings]
    /\ train_exs \in TrainSets
    /\ pc = "start"
    /\ indexer = <<>>
    /\ feat_extractor = "None"
    /\ weights = <<>>
    /\ epoch = 0
    /\ pos = 1
    /\ nread = 0
    /\ updates = <<>>
    /\ model = "None"
    /\ error = ""
    /\ ret = NoRet

FeatsBranchNoElse(a) ==
    IF a.model = "TRIVIAL" THEN "none"
    ELSE IF a.feats = "BIGRAM" THEN "bigram"
    ELSE IF a.feats = "BETTER" THEN "better"
    ELSE "unigram"

\* lines 186-209: which branch of the feature-extractor dispatch is taken
FeatsBranch(a) ==
    IF a.model = "TRIVIAL" THEN "none"
    ELSE IF a.feats = "UNIGRAM" THEN "unigram"
    ELSE IF a.feats = "BIGRAM" THEN "bigram"
    ELSE IF a.feats = "BETTER" THEN "better"
    ELSE "raise"

FeatsMessage == "Pass in UNIGRAM, BIGRAM, or BETTER to run the appropriate system"
ModelMessage == "Pass in TRIVIAL, PERCEPTRON, or LR to run the appropriate system"
NotImplemented == "Must be implemented"

Raise(msg) ==
    /\ pc' = "raised"
    /\ error' = msg

\* lines 182-209 up to the first vocabulary loop
Dispatch ==
    /\ pc = "start"
    /\ LET b == FeatsBranch(args)
       IN  CASE b = "none" ->
                  /\ pc' = "model"
                  /\ UNCHANGED error
             [] b \in {"unigram", "bigram"} ->
                  /\ pc' = "vocab"
                  /\ UNCHANGED error
             [] b = "better" -> Raise(NotImplemented)
             [] OTHER -> Raise(FeatsMessage)
    /\ UNCHANGED <<args, train_exs, indexer, feat_extractor, weights, epoch, pos,
                   nread, updates, model, ret>>

\* lines 190-194 and 197-204: one turn of `for ex in train_exs`, and the
\* construction of the extractor when the loop is over
VocabStep ==
    /\ pc = "vocab"
    /\ IF pos <= Len(train_exs)
       THEN /\ indexer' = VocabOfExample(args.feats, indexer, train_exs[pos].words)
            /\ pos' = pos + 1
            /\ nread' = nread + 1
            /\ UNCHANGED <<pc, feat_extractor>>
       ELSE /\ feat_extractor' = args.feats
            /\ pc' = "model"
            /\ pos' = 1
            /\ UNCHANGED <<indexer, nread>>
    /\ UNCHANGED <<args, train_exs, weights, epoch, updates, model, error, ret>>


----------------------------------------------------------------------------
(* Feature extraction *)

Zeros(n) == [k \in 1..n |-> 0]

UnigramCountNoLower(ix, v, word) ==
    IF IndexerContains(ix, word)
    THEN [v EXCEPT ![IndexOf(ix, word) + 1] = @ + 1]
    ELSE v

\* lines 46-47: the body of `for ele in ex_words`
UnigramCount(ix, v, word) ==
    IF IndexerContains(ix, Lower(word))
    THEN [v EXCEPT ![IndexOf(ix, Lower(word)) + 1] = @ + 1]
    ELSE v

\* lines 45-47 for the words lo..hi in order (split as the vocabulary loops are)
RECURSIVE UnigramLoop(_, _, _, _, _)
UnigramLoop(ix, v, words, lo, hi) ==
    IF Len(v) < 0 \/ lo > hi THEN v
    ELSE IF lo = hi THEN UnigramCount(ix, v, words[lo])
    ELSE LET mid == (lo + hi) \div 2
         IN  UnigramLoop(ix, UnigramLoop(ix, v, words, lo, mid), words, mid + 1, hi)

\* UnigramFeatureExtractor.extract_features: add_to_indexer is never read
UnigramExtract(ix, ex_words, add_to_indexer) ==
    UnigramLoop(ix, Zeros(Len(ix)), ex_words, 1, Len(ex_words))

\* lines 63-66: the body of `for i in range(0, len(ex_words)-1)`
BigramCount(ix, v, a, b) ==
    IF IndexerContains(ix, Lower(Bigram(a, b)))
    THEN [v EXCEPT ![IndexOf(ix, Lower(Bigram(a, b))) + 1] = @ + 1]
    ELSE v

RECURSIVE BigramLoop(_, _, _, _, _)
BigramLoop(ix, v, words, lo, hi) ==
    IF Len(v) < 0 \/ lo > hi THEN v
    ELSE IF lo = hi THEN BigramCount(ix, v, words[lo], words[lo + 1])
    ELSE LET mid == (lo + hi) \div 2
         IN  BigramLoop(ix, BigramLoop(ix, v, words, lo, mid), words, mid + 1, hi)

BigramExtractEmptyWhenShort(ix, ex_words, add_to_indexer) ==
    IF Len(ex_words) <= 1 THEN <<>>
    ELSE BigramLoop(ix, Zeros(Len(ix)), ex_words, 1, Len(ex_words) - 1)

\* BigramFeatureExtractor.extract_features: add_to_indexer is never read
BigramExtract(ix, ex_words, add_to_indexer) ==
    BigramLoop(ix, Zeros(Len(ix)), ex_words, 1, Len(ex_words) - 1)

\* feat_extractor.extract_features(ex_words, add_to_indexer)
ExtractLoops(fe, ix, ex_words, add_to_indexer) ==
    IF fe = "UNIGRAM" THEN UnigramExtract(ix, ex_words, add_to_indexer)
    ELSE BigramExtract(ix, ex_words, add_to_indexer)

ExtractTable ==
    [fe \in {"UNIGRAM", "BIGRAM"}, ix \in TabledIndexers, words \in LongSentences,
     add_to_indexer \in BOOLEAN |->
        ExtractLoops(fe, ix, words, add_to_indexer)]

ExtractFeaturesOf(fe, ix, ex_words, add_to_indexer) ==
    IF Tabled(ix, ex_words) THEN ExtractTable[fe, ix, ex_words, add_to_indexer]
    ELSE ExtractLoops(fe, ix, ex_words, add_to_indexer)

IndexerGrownWhenAsked(fe, ix, ex_words, add_to_indexer) ==
    IF add_to_indexer THEN VocabOfExample(fe, ix, ex_words) ELSE ix

\* the indexer after extract_features: lines 43-48 and 60-67 call only
\* __len__, contains and index_of on it
IndexerAfterExtract(fe, ix, ex_words, add_to_indexer) == ix

----------------------------------------------------------------------------
(* Floating point *)

Scale == 10 ^ 5
Half == Scale \div 2

CeilDiv(n, d) == (n + d - 1) \div d

\* n / d rounded away from zero
RoundAway(n, d) == IF n >= 0 THEN CeilDiv(n, d) ELSE -CeilDiv(-n, d)

\* math.exp(x) raises OverflowError for x > 709.78271...
MaxExpArg == 70978271
\* math.exp(x) is 0.0 for x < -745.13...
MinExpArg == -74514000
\* expo / (1 + expo) is exactly 1.0 for every x >= 37.43
SatOneArg == 3743000

\* 1 / (1 + e^-k) for k = 0..12, in units of 1/Scale
SigmoidKnots == <<50000, 73106, 88080, 95257, 98201, 99331, 99753,
                  99909, 99966, 99988, 99995, 99998, 99999>>

\* the logistic of x >= 0 while it is below 1.0: interpolated between the
\* knots, rounded up, so that it exceeds 0.5 for every x > 0
UpperHalf(x) ==
    LET k == x \div Scale
        r == x % Scale
    IN  IF k + 2 > Len(SigmoidKnots) THEN Scale - 1
        ELSE Min(Scale - 1,
                 SigmoidKnots[k + 1]
                   + CeilDiv((SigmoidKnots[k + 2] - SigmoidKnots[k + 1]) * CeilDiv(r, 10),
                             Scale \div 10))

\* math.exp(x) raises
ExpRaises(x) == x > MaxExpArg

\* expo = math.exp(x); possibility = expo / (1 + expo), when math.exp returns
Possibility(x) ==
    IF x >= SatOneArg THEN Scale
    ELSE IF x >= 0 THEN UpperHalf(x)
    ELSE IF x < MinExpArg THEN 0
    ELSE Scale - UpperHalf(-x)

\* np.dot of two vectors of the same length
RECURSIVE DotFrom(_, _, _)
DotFrom(w, f, k) == IF k > Len(w) THEN 0 ELSE w[k] * f[k] + DotFrom(w, f, k + 1)

Dot(w, f) == DotFrom(w, f, 1)

----------------------------------------------------------------------------
(* train_logistic_regression *)

Epoch == 10
\* learning_rate = 0.0001 = 1 / LearningRateInverse
LearningRateInverse == 10000

GradientReversed(label, possibility, str_features) ==
    [k \in 1..Len(str_features) |-> (possibility - label * Scale) * str_features[k]]

\* line 166: w_gradient = np.dot(ex.label - possibility, str_features)
Gradient(label, possibility, str_features) ==
    [k \in 1..Len(str_features) |-> (label * Scale - possibility) * str_features[k]]

\* line 167: weights = np.add(weights, np.dot(learning_rate, w_gradient))
AddStep(w, w_gradient) ==
    [k \in 1..Len(w) |-> w[k] + RoundAway(w_gradient[k], LearningRateInverse)]

OverflowError == "OverflowError: math range error"

\* lines 212-219: the model dispatch; for LR, lines 157-160 as well.  The
\* returned classifier keeps the extractor and the weights; train_model's
\* locals other than args are dropped from the state when it returns.
ModelDispatch ==
    /\ pc = "model"
    /\ CASE args.model = "TRIVIAL" ->
              /\ model' = "TRIVIAL"
              /\ pc' = "done"
              /\ train_exs' = <<>>
              /\ UNCHANGED <<weights, error>>
         [] args.model = "PERCEPTRON" ->
              /\ Raise(NotImplemented)
              /\ UNCHANGED <<weights, model, train_exs>>
         [] args.model = "LR" ->
              /\ weights' = Zeros(Len(indexer))
              /\ pc' = "lr"
              /\ UNCHANGED <<model, error, train_exs>>
         [] OTHER ->
              /\ Raise(ModelMessage)
              /\ UNCHANGED <<weights, model, train_exs>>
    /\ UNCHANGED <<args, indexer, feat_extractor, epoch, pos, nread, updates, ret>>

LoopOver == epoch >= Epoch \/ Len(train_exs) = 0

\* lines 163-167: the update for the example at pos, and the loops' advance
LRUpdate ==
    /\ pc = "lr"
    /\ ~LoopOver
    /\ LET ex == train_exs[pos]
           str_features == ExtractFeaturesOf(feat_extractor, indexer, ex.words, FALSE)
           d == Dot(weights, str_features)
       IN  IF ExpRaises(d)
           THEN /\ Raise(OverflowError)
                /\ UNCHANGED <<weights, epoch, pos, updates>>
           ELSE /\ weights' = AddStep(weights, Gradient(ex.label, Possibility(d), str_features))
                /\ updates' = Append(updates, pos)
                /\ IF pos = Len(train_exs)
                   THEN epoch' = epoch + 1 /\ pos' = 1
                   ELSE epoch' = epoch /\ pos' = pos + 1
                /\ UNCHANGED <<pc, error>>
    /\ UNCHANGED <<args, train_exs, indexer, feat_extractor, nread, model, ret>>

\* line 168: return LogisticRegressionClassifier(weights, feat_extractor)
LRReturn ==
    /\ pc = "lr"
    /\ LoopOver
    /\ model' = "LR"
    /\ pc' = "done"
    /\ train_exs' = <<>>
    /\ updates' = <<>>
    /\ epoch' = 0
    /\ pos' = 1
    /\ nread' = 0
    /\ UNCHANGED <<args, indexer, feat_extractor, weights, error, ret>>

----------------------------------------------------------------------------
(* The returned objects *)

Returned(v) == [outcome |-> "returned", value |-> v]
Raised(e) == [outcome |-> e, value |-> <<>>]

\* LogisticRegressionClassifier.predict
LRPredict(fe, ix, w, ex_words) ==
    LET str_features == ExtractFeaturesOf(fe, ix, ex_words, FALSE)
        d == Dot(w, str_features)
    IN  IF ExpRaises(d) THEN Raised(OverflowError)
        ELSE IF Possibility(d) > Half THEN Returned(1)
        ELSE Returned(0)

\* TrivialSentimentClassifier.predict
TrivialPredict(sentence) == Returned(1)

\* a call of predict on the classifier train_model returned
Predict(inputs) ==
    /\ pc = "done"
    /\ model # "None"
    /\ ret = NoRet
    /\ \E ex_words \in inputs :
          LET r == IF model = "TRIVIAL" THEN TrivialPredict(ex_words)
                   ELSE LRPredict(feat_extractor, indexer, weights, ex_words)
          IN  /\ ret' = [op |-> "predict", words |-> ex_words, add |-> FALSE,
                         outcome |-> r.outcome, value |-> r.value]
              /\ indexer' = IndexerAfterExtract(feat_extractor, indexer, ex_words, FALSE)
    /\ UNCHANGED <<args, train_exs, pc, feat_extractor, weights, epoch, pos, nread,
                   updates, model, error>>

\* a call of extract_features on an extractor
ExtractFeatures(inputs) ==
    /\ pc = "done"
    /\ feat_extractor # "None"
    /\ ret = NoRet
    /\ \E ex_words \in inputs, add_to_indexer \in BOOLEAN :
          /\ ret' = [op |-> "extract_features", words |-> ex_words,
                     add |-> add_to_indexer, outcome |-> "returned",
                     value |-> ExtractFeaturesOf(feat_extractor, indexer, ex_words,
                                                 add_to_indexer)]
          /\ indexer' = IndexerAfterExtract(feat_extractor, indexer, ex_words,
                                            add_to_indexer)
    /\ UNCHANGED <<args, train_exs, pc, feat_extractor, weights, epoch, pos, nread,
                   updates, model, error>>

\* the caller is done with the result of the last call and may call again
DropResult ==
    /\ pc = "done"
    /\ ret # NoRet
    /\ ret' = NoRet
    /\ UNCHANGED <<args, train_exs, pc, indexer, feat_extractor, weights, epoch, pos,
                   nread, updates, model, error>>

----------------------------------------------------------------------------
(* Specifications *)

\* train_model on every configuration and every training set of short
\* sentences, then calls on the classifier it returned
Next ==
    \/ Dispatch
    \/ VocabStep
    \/ ModelDispatch
    \/ LRUpdate
    \/ LRReturn
    \/ Predict(ShortLists)
    \/ ExtractFeatures(ShortLists)
    \/ DropResult

Spec == Init /\ [][Next]_vars

\* train_logistic_regression on sentences long enough for the floating-point
\* range to matter: LongList and HugeList among the training examples and
\* among the inputs of the calls
LongLists == {<<>>, <<TokFun>>, <<TokBad>>, LongList, HugeList}
LongExamples == [words : LongLists \ {<<>>}, label : {0, 1}]

InitLong ==
    /\ args \in [model : {"LR"}, feats : {"UNIGRAM", "BIGRAM"}]
    /\ train_exs \in UNION {[1..n -> LongExamples] : n \in 0..MaxExs}
    /\ pc = "start"
    /\ indexer = <<>>
    /\ feat_extractor = "None"
    /\ weights = <<>>
    /\ epoch = 0
    /\ pos = 1
    /\ nread = 0
    /\ updates = <<>>
    /\ model = "None"
    /\ error = ""
    /\ ret = NoRet

NextLong ==
    \/ Dispatch
    \/ VocabStep
    \/ ModelDispatch
    \/ LRUpdate
    \/ LRReturn
    \/ Predict(LongLists)
    \/ ExtractFeatures(LongLists)
    \/ DropResult

SpecLong == InitLong /\ [][NextLong]_vars

\* extract_features on an extractor built directly over any indexer: the
\* entries need not come from a vocabulary pass, so they may be capitalised
FeatureStrings ==
    { Lower(TokFun), Lower(TokBad), TokBad,
      Lower(Bigram(TokFun, TokBad)), Lower(Bigram(TokBad, TokFun)) }

InitExtract ==
    /\ feat_extractor \in {"UNIGRAM", "BIGRAM"}
    /\ args = [model |-> "None", feats |-> feat_extractor]
    /\ indexer \in Indexers(FeatureStrings, MaxIndexer)
    /\ train_exs = <<>>
    /\ pc = "done"
    /\ weights = <<>>
    /\ epoch = 0
    /\ pos = 1
    /\ nread = 0
    /\ updates = <<>>
    /\ model = "None"
    /\ error = ""
    /\ ret = NoRet

NextExtract ==
    \/ ExtractFeatures(ShortLists)
    \/ DropResult

SpecExtract == InitExtract /\ [][NextExtract]_vars

----------------------------------------------------------------------------
(* Properties *)

\* C1: every call of predict on a classifier train_model returned ends by
\* returning 0 or 1: no other value, and no other outcome such as an error.
C1_PredictReturnsLabel ==
    ret.op = "predict" => (ret.outcome = "returned" /\ ret.value \in {0, 1})

\* C2 as stated: with a model string outside {TRIVIAL, PERCEPTRON, LR} or a
\* feature string outside {UNIGRAM, BIGRAM, BETTER}, whatever the other option
\* is, train_model goes from its start straight to an error, having read no
\* training example and added no entry to the indexer.
C2_InvalidOptionRaisesAtOnce ==
    (args.model \notin {"TRIVIAL", "PERCEPTRON", "LR"}
       \/ args.feats \notin {"UNIGRAM", "BIGRAM", "BETTER"})
    => \/ pc = "start"
       \/ pc = "raised" /\ error \in {FeatsMessage, ModelMessage}
                        /\ nread = 0 /\ indexer = <<>>

\* C2 as amended: an unknown feature string raises the feature error at once
\* (nothing read, indexer empty) unless the model is TRIVIAL, for which the
\* feature string is never examined and no error is raised; an unknown model
\* string never yields a classifier, and its error comes after the feature
\* stage: with UNIGRAM or BIGRAM only once the vocabulary pass has read every
\* training example, with BETTER as the extractor's "Must be implemented".
C2_InvalidOptionOutcome ==
    /\ (args.feats \notin {"UNIGRAM", "BIGRAM", "BETTER"} /\ args.model # "TRIVIAL")
       => \/ pc = "start"
          \/ pc = "raised" /\ error = FeatsMessage /\ nread = 0 /\ indexer = <<>>
    /\ (args.feats \notin {"UNIGRAM", "BIGRAM", "BETTER"} /\ args.model = "TRIVIAL")
       => pc \in {"start", "model", "done"} /\ error = "" /\ nread = 0 /\ indexer = <<>>
    /\ (args.model \notin {"TRIVIAL", "PERCEPTRON", "LR"}
          /\ args.feats \in {"UNIGRAM", "BIGRAM"})
       => /\ pc \in {"start", "vocab", "model", "raised"}
          /\ pc = "raised" => error = ModelMessage /\ nread = Len(train_exs)
    /\ (args.model \notin {"TRIVIAL", "PERCEPTRON", "LR"} /\ args.feats = "BETTER")
       => \/ pc = "start"
          \/ pc = "raised" /\ error = NotImplemented /\ nread = 0 /\ indexer = <<>>

\* an unknown model string has raised its error after the vocabulary pass read
\* the training examples and filled the indexer
C2_Witness ==
    /\ args.model \notin {"TRIVIAL", "PERCEPTRON", "LR"}
    /\ pc = "raised"
    /\ error = ModelMessage
    /\ nread > 0
    /\ indexer # <<>>

\* C3: once the BIGRAM vocabulary is built, no indexer entry is the joined
\* form of two stopwords and none has a punctuation token on either side,
\* and every adjacent training pair that is neither has its lower-cased
\* joined form in the indexer.
C3_BigramVocabulary ==
    (pc \in {"model", "lr"} /\ FeatsBranch(args) = "bigram")
    => LET forms == {Lower(t) : t \in Tokens}
           pairs == UNION {{<<train_exs[i].words[j], train_exs[i].words[j + 1]>> :
                              j \in 1..(Len(train_exs[i].words) - 1)} :
                           i \in 1..Len(train_exs)}
           skipped(a, b) == \/ Lower(a) \in stop_words /\ Lower(b) \in stop_words
                            \/ a \in punkt
                            \/ b \in punkt
       IN  /\ \A k \in 1..Len(indexer) : \A a, b \in forms :
                indexer[k] = Bigram(a, b)
                => /\ ~(a \in stop_words /\ b \in stop_words)
                   /\ a \notin punkt
                   /\ b \notin punkt
           /\ \A pr \in pairs :
                ~skipped(pr[1], pr[2]) => Lower(Bigram(pr[1], pr[2])) \in Objects(indexer)

\* C4: once the UNIGRAM vocabulary is built, the indexer holds exactly the
\* lower-cased forms of the training tokens that are neither stopwords nor
\* punctuation-set members.
C4_UnigramVocabulary ==
    (pc \in {"model", "lr"} /\ FeatsBranch(args) = "unigram")
    => LET tokens == UNION {{train_exs[i].words[j] : j \in 1..Len(train_exs[i].words)} :
                            i \in 1..Len(train_exs)}
       IN  Objects(indexer) = {Lower(t) : t \in tokens} \ (stop_words \cup punkt)

\* the vocabulary pass has met a capitalised stopword, a punctuation token and
\* a capitalised word it keeps
C4_Witness ==
    /\ pc = "model"
    /\ FeatsBranch(args) = "unigram"
    /\ Len(train_exs) = 2
    /\ train_exs[1].words = <<TokThe, TokBad>>
    /\ train_exs[2].words = <<TokDot, TokBad>>
    /\ indexer = <<Lower(TokBad)>>

\* C5: the unigram extractor returns a vector as long as the indexer whose
\* entry i is the number of input tokens whose lower-cased form is the
\* indexer's entry i (so all zeros when no token is in the vocabulary), and
\* it never ends in an error.
C5_UnigramCounts ==
    (ret.op = "extract_features" /\ feat_extractor = "UNIGRAM")
    => /\ ret.outcome = "returned"
       /\ Len(ret.value) = Len(indexer)
       /\ \A i \in 1..Len(indexer) :
            ret.value[i]
              = Cardinality({j \in 1..Len(ret.words) : Lower(ret.words[j]) = indexer[i]})

\* the unigram extractor has counted a capitalised token twice under its
\* lower-cased entry and left the capitalised entry of the indexer at zero
C5_Witness ==
    /\ ret.op = "extract_features"
    /\ feat_extractor = "UNIGRAM"
    /\ indexer = <<TokBad, Lower(TokBad)>>
    /\ ret.words = <<TokBad, TokBad>>
    /\ ret.value = <<0, 2>>

\* C6: on an input of length 0 or 1 the bigram extractor returns the
\* all-zeros vector whose length is the size of the indexer.
C6_BigramShortInput ==
    (ret.op = "extract_features" /\ feat_extractor = "BIGRAM" /\ Len(ret.words) <= 1)
    => /\ ret.outcome = "returned"
       /\ Len(ret.value) = Len(indexer)
       /\ \A i \in 1..Len(indexer) : ret.value[i] = 0

\* the bigram extractor has been called with a single token over an indexer
\* of two entries
C6_Witness ==
    /\ ret.op = "extract_features"
    /\ feat_extractor = "BIGRAM"
    /\ Len(ret.words) = 1
    /\ Len(indexer) = 2
    /\ ret.value = <<0, 0>>

C8_PredictIsSignOfDot ==
    (ret.op = "predict" /\ model = "LR")
    => /\ ret.outcome = "returned"
       /\ ret.value
            = (IF Dot(weights, ExtractFeaturesOf(feat_extractor, indexer, ret.words, FALSE)) > 0
               THEN 1 ELSE 0)

\* C9: training starts from the all-zeros vector of the indexer's length,
\* applies its updates one example after the other in the order of the
\* training set, epoch after epoch, never ends in an error, and is over only
\* when 10 * N updates have been applied.
C9_TenEpochsInOrder ==
    /\ pc # "raised"
    /\ pc = "lr"
       => /\ Len(weights) = Len(indexer)
          /\ updates = <<>> => weights = Zeros(Len(indexer))
          /\ Len(updates) = epoch * Len(train_exs) + pos - 1
          /\ \A k \in 1..Len(updates) : updates[k] = ((k - 1) % Len(train_exs)) + 1
          /\ LoopOver => Len(updates) = 10 * Len(train_exs)

\* C10 as stated: every update leaves the weights of the features absent
\* from its example unchanged, strictly raises the weight of every feature
\* present in it when the label is 1 and strictly lowers it when the label
\* is 0.
C10_UpdateMovesWeights ==
    [][(pc = "lr" /\ pc' = "lr" /\ updates' # updates)
       => LET ex == train_exs[pos]
              str_features == ExtractFeaturesOf(feat_extractor, indexer, ex.words, FALSE)
          IN  \A k \in 1..Len(weights) :
                /\ str_features[k] = 0 => weights'[k] = weights[k]
                /\ (str_features[k] > 0 /\ ex.label = 1) => weights'[k] > weights[k]
                /\ (str_features[k] > 0 /\ ex.label = 0) => weights'[k] < weights[k]]_vars

\* C10 as amended: every update leaves the weights of the features absent
\* from its example unchanged, never lowers a weight when the label is 1 and
\* never raises one when the label is 0 (a weight stays where it is once the
\* computed probability equals the label); and throughout training a feature
\* occurring only in label-1 examples has weight >= 0, one occurring only in
\* label-0 examples has weight <= 0, one occurring in no example has weight 0.
C10_UpdateNeverMovesAgainstLabel ==
    /\ [][(pc = "lr" /\ pc' = "lr" /\ updates' # updates)
          => LET ex == train_exs[pos]
                 str_features == ExtractFeaturesOf(feat_extractor, indexer, ex.words, FALSE)
             IN  \A k \in 1..Len(weights) :
                   /\ str_features[k] = 0 => weights'[k] = weights[k]
                   /\ ex.label = 1 => weights'[k] >= weights[k]
                   /\ ex.label = 0 => weights'[k] <= weights[k]]_vars
    /\ [](pc = "lr"
          => \A k \in 1..Len(weights) :
               LET occurs == {i \in 1..Len(train_exs) :
                                ExtractFeaturesOf(feat_extractor, indexer,
                                                  train_exs[i].words, FALSE)[k] > 0}
               IN  /\ (\A i \in occurs : train_exs[i].label = 1) => weights[k] >= 0
                   /\ (\A i \in occurs : train_exs[i].label = 0) => weights[k] <= 0)

\* an update for a label-1 example has been applied while the computed
\* probability was exactly 1.0: the weight of its feature is positive and the
\* update left it where it was
C10_Witness ==
    /\ pc = "lr"
    /\ Len(train_exs) = 1
    /\ train_exs[1].label = 1
    /\ Len(updates) >= 2
    /\ Len(weights) = 1
    /\ weights[1] > 0
    /\ Possibility(Dot(weights, ExtractFeaturesOf(feat_extractor, indexer,
                                                  train_exs[1].words, FALSE))) = Scale

====
